---------------------------- MODULE Spec2Model ----------------------------
(***************************************************************************)
(* A model of wimg-cli (src/main.rs): the batch run of main() over the     *)
(* input images and output formats, its path handling, its fingerprint     *)
(* computation and its manifest handling.                                   *)
(*                                                                          *)
(* Strings are sequences of tokens; a token stands for a run of characters  *)
(* without '.', '-' or '/', and ".", "-" and "/" are tokens of their own.   *)
(* A path is a record [abs, comps]: comps is the sequence of its            *)
(* components, each a string; the component <<"..">> is Rust's              *)
(* Component::ParentDir.  Fixed-width unsigned integers are big-endian      *)
(* sequences of bytes, so that additions keep their width.                  *)
(***************************************************************************)
EXTENDS Naturals, Sequences, FiniteSets, TLC

(* Bounds of the model. *)
MaxImages == 2
MaxFormats == 2

-----------------------------------------------------------------------------
(* Fixed-width unsigned integers as big-endian byte sequences. *)

RECURSIVE CarryInto(_, _, _)
(* The carry into byte position k (1 is the most significant byte) when a   *)
(* and b, of the same length, are added.                                    *)
CarryInto(a, b, k) ==
    IF k >= Len(a) THEN 0
    ELSE (a[k + 1] + b[k + 1] + CarryInto(a, b, k + 1)) \div 256

(* a + b on the fixed-width type: the wrapped sum and whether it overflowed. *)
AddFixed(a, b) ==
    [bytes |-> [k \in 1..Len(a) |-> (a[k] + b[k] + CarryInto(a, b, k)) % 256],
     overflow |-> CarryInto(a, b, 0) = 1]

(* The integer a widened to n bytes. *)
ZeroExtend(a, n) == [k \in 1..(n - Len(a)) |-> 0] \o a

RECURSIVE SumBytes(_)
SumBytes(b) == IF b = <<>> THEN 0 ELSE Head(b) + SumBytes(Tail(b))

HexDigits ==
    <<"0", "1", "2", "3", "4", "5", "6", "7", "8", "9", "a", "b", "c", "d", "e", "f">>

RECURSIVE HexEncode(_)
(* hex::encode: two lowercase hexadecimal digits per byte. *)
HexEncode(bytes) ==
    IF bytes = <<>> THEN <<>>
    ELSE <<HexDigits[(Head(bytes) \div 16) + 1], HexDigits[(Head(bytes) % 16) + 1]>>
             \o HexEncode(Tail(bytes))

-----------------------------------------------------------------------------
(* std::path on token strings. *)

NoName == <<>>
ParentDir == <<"..">>

Rel(comps) == [abs |-> FALSE, comps |-> comps]
Abs(comps) == [abs |-> TRUE, comps |-> comps]

IsPrefix(s, t) == Len(s) <= Len(t) /\ SubSeq(t, 1, Len(s)) = s

(* PathBuf::join: an absolute argument replaces the receiver. *)
Join(p, q) == IF q.abs THEN q ELSE [abs |-> p.abs, comps |-> p.comps \o q.comps]

(* Path::starts_with: whole components are compared, ".." is a component   *)
(* like any other and is not resolved.                                      *)
StartsWith(p, b) == p.abs = b.abs /\ IsPrefix(b.comps, p.comps)

(* Path::strip_prefix, for a path that starts with b. *)
StripPrefix(p, b) == Rel(SubSeq(p.comps, Len(b.comps) + 1, Len(p.comps)))

(* Path::file_name: the last component, none when it is "..". *)
FileName(p) ==
    IF p.comps = <<>> \/ p.comps[Len(p.comps)] = ParentDir THEN NoName
    ELSE p.comps[Len(p.comps)]

(* Path::parent. *)
Parent(p) == [abs |-> p.abs, comps |-> SubSeq(p.comps, 1, Len(p.comps) - 1)]

(* The position of the last "." of a file name, 0 when it has none. *)
LastDot(n) ==
    LET dots == {k \in 1..Len(n) : n[k] = "."}
    IN IF dots = {} THEN 0 ELSE CHOOSE k \in dots : \A m \in dots : m <= k

(* Path::file_stem of a file name: the part before the last dot; the whole *)
(* name when it has no dot or only a leading one.                           *)
FileStem(n) == IF LastDot(n) <= 1 THEN n ELSE SubSeq(n, 1, LastDot(n) - 1)

(* Path::extension of a file name: the part after the last dot, NoName     *)
(* where file_stem is the whole name.                                        *)
Extension(n) == IF LastDot(n) <= 1 THEN NoName ELSE SubSeq(n, LastDot(n) + 1, Len(n))

(* Path::with_file_name: the last component replaced (pushed after ".."). *)
WithFileName(p, n) ==
    IF FileName(p) = NoName THEN [abs |-> p.abs, comps |-> Append(p.comps, n)]
    ELSE [abs |-> p.abs, comps |-> Append(Parent(p).comps, n)]

(* Path::with_extension: the file name cut after its file_stem, then "."   *)
(* and ext appended unless ext is empty.                                     *)
WithExtension(p, ext) ==
    IF FileName(p) = NoName THEN p
    ELSE WithFileName(p, FileStem(FileName(p))
                           \o (IF ext = <<>> THEN <<>> ELSE <<".">> \o ext))

RECURSIVE JoinComps(_)
JoinComps(comps) ==
    IF comps = <<>> THEN <<>>
    ELSE IF Len(comps) = 1 THEN comps[1]
    ELSE comps[1] \o <<"/">> \o JoinComps(Tail(comps))

(* Path::to_string_lossy: the components separated by "/". *)
PathString(p) == (IF p.abs THEN <<"/">> ELSE <<>>) \o JoinComps(p.comps)

RECURSIVE ResolveComps(_, _)
ResolveComps(done, rest) ==
    IF rest = <<>> THEN done
    ELSE IF Head(rest) = ParentDir
         THEN ResolveComps(IF done = <<>> THEN <<>> ELSE SubSeq(done, 1, Len(done) - 1),
                           Tail(rest))
         ELSE ResolveComps(Append(done, Head(rest)), Tail(rest))


(* How the file system resolves an absolute path: ".." steps to the parent. *)
Resolve(p) == ResolveComps(<<>>, p.comps)

-----------------------------------------------------------------------------
(* The output formats, the stage seeds and the fingerprint. *)

Formats == {"Avif", "Jpeg", "Png", "Webp"}

(* The order of the variants of enum OutputFormat. *)
FormatIndex(f) ==
    CASE f = "Avif" -> 1 [] f = "Jpeg" -> 2 [] f = "Png" -> 3 [] f = "Webp" -> 4

(* OutputFormat::ext. *)
Ext(f) ==
    CASE f = "Avif" -> <<"avif">>
      [] f = "Jpeg" -> <<"jpg">>
      [] f = "Png" -> <<"png">>
      [] f = "Webp" -> <<"webp">>

Stages == {"resize", "avif", "jpeg", "png", "webp"}

(* The stage whose seed() the match on the format calls. *)
FormatStage(f) ==
    CASE f = "Avif" -> "avif"
      [] f = "Jpeg" -> "jpeg"
      [] f = "Png" -> "png"
      [] f = "Webp" -> "webp"

(* wimg::hash::hash(bytes, seed), the external keyed hash: a fixed function *)
(* of the bytes and the seed with an 8-byte result, injective in the seed.   *)
Hash(bytes, seed) ==
    LET s == SumBytes(bytes)
        mix == <<(s * 83 + 17) % 256, (s * 29 + Len(bytes)) % 256, 0, 0,
                 0, 0, Len(bytes) % 256, s % 256>>
    IN AddFixed(mix, ZeroExtend(seed, Len(mix))).bytes

(* str::as_bytes of the variant names of the model. *)
TokenBytes(t) ==
    CASE t = "thumb" -> <<116, 104, 117, 109, 98>>
      [] t = "large" -> <<108, 97, 114, 103, 101>>

RECURSIVE AsBytes(_)
AsBytes(str) == IF str = <<>> THEN <<>> ELSE TokenBytes(Head(str)) \o AsBytes(Tail(str))

(* A slip in the match on the format: the png arm calls the jpeg seed. *)
SeedSumWrongArm(f, sd) ==
    AddFixed(sd["resize"], sd[IF f = "Png" THEN "jpeg" ELSE FormatStage(f)])

(* seed = resize::seed() + <format>::seed(). *)
SeedSum(f, sd) == AddFixed(sd["resize"], sd[FormatStage(f)])

(* The hash of one output: [panic, bytes].  `+` and `+=` wrap in a build    *)
(* without overflow checks and panic in a build with them.  mf is the        *)
(* run's Option<(Manifest, variant)>.                                        *)
Fingerprint(bytes, f, mf, sd, checks) ==
    LET seed == SeedSum(f, sd)
        h1 == Hash(bytes, seed.bytes)
        sum == AddFixed(h1, Hash(AsBytes(mf.variant), seed.bytes))
    IN IF seed.overflow /\ checks THEN [panic |-> TRUE, bytes |-> <<>>]
       ELSE IF ~mf.some THEN [panic |-> FALSE, bytes |-> h1]
       ELSE IF sum.overflow /\ checks THEN [panic |-> TRUE, bytes |-> <<>>]
       ELSE [panic |-> FALSE, bytes |-> sum.bytes]

(* The out_file of a format without the hash in its name. *)
OutFileWithoutHash(outer, hashBytes, f) == WithExtension(outer, Ext(f))

(* The file the output of one format is written to: the file stem of the    *)
(* re-rooted source path, "-", the hash in hex, then with_extension.         *)
OutFileFor(outer, hashBytes, f) ==
    WithExtension(
        WithFileName(outer, FileStem(FileName(outer)) \o <<"-">> \o HexEncode(hashBytes)),
        Ext(f))

-----------------------------------------------------------------------------
(* The manifest: BTreeMap<String, BTreeMap<String, BTreeMap<String, String>>>. *)

EmptyMap == [k \in {} |-> <<>>]

Put(m, k, v) == [x \in (DOMAIN m) \cup {k} |-> IF x = k THEN v ELSE m[x]]

(* The formats of the variant replaced by a map of the one new entry. *)
RecordLeafFreshFormats(m, name, variant, ext, path) ==
    LET variants == IF name \in DOMAIN m THEN m[name] ELSE EmptyMap
    IN Put(m, name, Put(variants, variant, Put(EmptyMap, ext, path)))

(* entry(name).or_default(), entry(variant).or_default(), insert(ext, path). *)
RecordLeaf(m, name, variant, ext, path) ==
    LET variants == IF name \in DOMAIN m THEN m[name] ELSE EmptyMap
        formats == IF variant \in DOMAIN variants THEN variants[variant] ELSE EmptyMap
    IN Put(m, name, Put(variants, variant, Put(formats, ext, path)))

(* The leaves of a manifest, as (name, variant, ext) triples. *)
Leaves(m) ==
    UNION {UNION {{<<n, v, e>> : e \in DOMAIN m[n][v]} : v \in DOMAIN m[n]}
             : n \in DOMAIN m}

(* The order of the tokens' first bytes, for the ordering of String keys. *)
Alphabet ==
    <<"-", ".", "..", "/", "0", "1", "2", "3", "4", "5", "6", "7", "8", "9",
      "a", "avif", "b", "c", "cat", "d", "dist", "e", "f", "jpg", "large",
      "missing", "notes", "old", "outside", "photos", "png", "sub", "thumb", "txt",
      "webp", "zebra">>

Rank(t) == CHOOSE k \in 1..Len(Alphabet) : Alphabet[k] = t

RECURSIVE StrLess(_, _)
(* Ord for String: lexicographic. *)
StrLess(a, b) ==
    IF b = <<>> THEN FALSE
    ELSE IF a = <<>> THEN TRUE
    ELSE IF Head(a) = Head(b) THEN StrLess(Tail(a), Tail(b))
    ELSE Rank(Head(a)) < Rank(Head(b))

RECURSIVE SortedKeys(_)
(* The keys of a BTreeMap in iteration order. *)
SortedKeys(S) ==
    IF S = {} THEN <<>>
    ELSE LET least == CHOOSE x \in S : \A y \in S \ {x} : StrLess(x, y)
         IN <<least>> \o SortedKeys(S \ {least})

(* serde_json::to_writer_pretty of a manifest: the JSON document, an object *)
(* as the sequence of its members <<key, value>> in the map's key order.    *)
FormatsToJson(fm) == [i \in 1..Cardinality(DOMAIN fm) |->
                        LET k == SortedKeys(DOMAIN fm)[i] IN <<k, fm[k]>>]

VariantsToJson(vm) == [i \in 1..Cardinality(DOMAIN vm) |->
                         LET k == SortedKeys(DOMAIN vm)[i] IN <<k, FormatsToJson(vm[k])>>]

ToJson(m) == [i \in 1..Cardinality(DOMAIN m) |->
                LET k == SortedKeys(DOMAIN m)[i] IN <<k, VariantsToJson(m[k])>>]

(* serde's map visitor: members are inserted in document order, a repeated  *)
(* key keeps its last value.                                                 *)
MemberKeys(members) == {members[i][1] : i \in 1..Len(members)}

LastValue(members, k) ==
    LET last == CHOOSE i \in 1..Len(members) :
                   /\ members[i][1] = k
                   /\ \A j \in 1..Len(members) : members[j][1] = k => j <= i
    IN members[last][2]

FormatsFromJson(doc) == [k \in MemberKeys(doc) |-> LastValue(doc, k)]

VariantsFromJson(doc) == [k \in MemberKeys(doc) |-> FormatsFromJson(LastValue(doc, k))]

(* A parse that loses the last member of the document. *)
FromJsonDroppingLast(doc) ==
    [k \in MemberKeys(SubSeq(doc, 1, Len(doc) - 1)) |->
        VariantsFromJson(LastValue(SubSeq(doc, 1, Len(doc) - 1), k))]

(* serde_json::from_slice::<Manifest> of a well-formed document. *)
FromJson(doc) == [k \in MemberKeys(doc) |-> VariantsFromJson(LastValue(doc, k))]


-----------------------------------------------------------------------------
(* The environment of a run and the command lines of the model. *)

None == [some |-> FALSE, val |-> <<>>]
Some(x) == [some |-> TRUE, val |-> x]

FileNamed(stem, ext) == <<stem, ".", ext>>

(* env::current_dir(). *)
Cwd == Abs(<< <<"photos">> >>)

(* --out-dir. *)
OutDir == Rel(<< <<"dist">> >>)

(* The regular files of the file system before the first run, by resolved  *)
(* absolute path, with their bytes.                                          *)
Files0 ==
    (<< <<"photos">>, FileNamed("cat", "png") >> :> <<3>>)
      @@ (<< <<"photos">>, FileNamed("cat", "jpg") >> :> <<7>>)
      @@ (<< <<"photos">>, FileNamed("notes", "txt") >> :> <<1>>)
      @@ (<< <<"photos">>, <<"sub">>, <<"a", ".", "b", ".", "png">> >> :> <<200>>)
      @@ (<< FileNamed("outside", "png") >> :> <<5>>)

(* The directories before the first run. *)
Dirs0 == {<<>>, << <<"photos">> >>, << <<"photos">>, <<"sub">> >>}

(* The image paths a command line of the model may name. *)
ImageChoices ==
    {Rel(<< FileNamed("cat", "png") >>),
     Rel(<< FileNamed("cat", "jpg") >>),
     Rel(<< <<"sub">>, <<"a", ".", "b", ".", "png">> >>),
     Rel(<< FileNamed("notes", "txt") >>),
     Rel(<< ParentDir, FileNamed("outside", "png") >>),
     Rel(<< FileNamed("missing", "png") >>)}

BaseDirChoices == {None, Some(Rel(<< <<"sub">> >>)), Some(Rel(<< <<"nodir">> >>))}

VariantChoices == {None, Some(<<"thumb">>)}

SeqsUpTo(S, n) == UNION {[1..k -> S] : k \in 0..n}

NoRepeats(s) == \A i, j \in 1..Len(s) : i # j => s[i] # s[j]

(* --format, in the model given in the order of the enum, without repeats. *)
FormatLists ==
    {s \in SeqsUpTo(Formats, MaxFormats) :
        \A i, j \in 1..Len(s) : i < j => FormatIndex(s[i]) < FormatIndex(s[j])}

(* struct Args (width, height and the encode options do not bear on the    *)
(* paths, the hashes or the manifest and are left out).                      *)
ArgsSet ==
    [images : {s \in SeqsUpTo(ImageChoices, MaxImages) : NoRepeats(s)},
     base_dir : BaseDirChoices,
     variant : VariantChoices,
     manifest : BOOLEAN,
     format : FormatLists]

(* The content of the file at --manifest. *)
Absent == [kind |-> "absent", doc |-> <<>>]
Garbage == [kind |-> "garbage", doc |-> <<>>]
Truncated == [kind |-> "empty", doc |-> <<>>]
Partial == [kind |-> "partial", doc |-> <<>>]
JsonFile(doc) == [kind |-> "json", doc |-> doc]

(* A manifest left by earlier runs of the program. *)
EarlierManifest ==
    JsonFile(<<
        << <<"cat">>,
           << << <<"large">>, << << <<"png">>, <<"cat", "-", "old", ".", "png">> >> >> >>,
              << <<"thumb">>, << << <<"png">>, <<"cat", "-", "old", ".", "png">> >>,
                                 << <<"webp">>, <<"cat", "-", "old", ".", "webp">> >> >> >> >> >>,
        << <<"zebra">>,
           << << <<"thumb">>, << << <<"jpg">>, <<"zebra", "-", "old", ".", "jpg">> >> >> >> >> >>
    >>)

ManifestFileChoices == {Absent, Garbage, EarlierManifest}

(* The seeds of the stages in the release that runs. *)
ReleaseSeeds ==
    [st \in Stages |->
        CASE st = "resize" -> <<0, 0, 0, 1>>
          [] st = "avif" -> <<0, 0, 0, 2>>
          [] st = "jpeg" -> <<0, 0, 0, 3>>
          [] st = "png" -> <<0, 0, 0, 4>>
          [] st = "webp" -> <<0, 0, 0, 5>>]

SeedValues == {<<0, 0, 0, 1>>, <<0, 0, 0, 2>>, <<255, 255, 255, 255>>}

IsFile(files, p) == Resolve(p) \in DOMAIN files
IsDir(ds, p) == Resolve(p) \in ds

(* The directories fs::create_dir_all(p) leaves in place: every prefix of p. *)
CreatedDirs(p) == {ResolveComps(<<>>, SubSeq(p.comps, 1, k)) : k \in 0..Len(p.comps)}

-----------------------------------------------------------------------------
VARIABLES
    args,             \* the command line
    overflow_checks,  \* whether the build panics on integer overflow
    seeds,            \* the seed() of every stage
    fs,               \* the regular files: resolved path -> bytes
    dirs,             \* the directories
    manifest_file,    \* the content of the file at --manifest
    pc,               \* the position of main()
    base,             \* let base
    manifest,         \* let mut manifest: Option<(Manifest, String)>
    images,           \* let images
    idx,              \* the position of `for path in images`
    fidx,             \* the position of `for format in &args.format`
    data,             \* let data
    image,            \* let image
    name,             \* let name
    outer,            \* let out_file (of the image)
    hash,             \* let hash
    out_file,         \* let out_file (of the format)
    encoded,          \* let image (the encoded bytes)
    reads,            \* history: the images read so far in this run
    saves,            \* history: the File::create calls on the manifest in this run
    written,          \* history: the outputs written in this run
    start,            \* history: fs, dirs and manifest_file when this run began
    run,              \* history: the number of this run
    prev,             \* history: what the previous run wrote
    fp_req,           \* the inputs of the fingerprints under study
    fp_pc,
    fp_out,           \* the fingerprint of every format
    fp_old,           \* the same before the seed was changed
    fp_stage          \* the stage whose seed was changed

locals == <<base, manifest, images, idx, fidx, data, image, name, outer, hash,
            out_file, encoded>>
disk == <<fs, dirs, manifest_file>>
history == <<reads, saves, written, start, run, prev>>
build == <<args, overflow_checks, seeds>>
fpVars == <<fp_req, fp_pc, fp_out, fp_old, fp_stage>>
vars == <<build, disk, pc, locals, history, fpVars>>

NoManifest == [some |-> FALSE, map |-> EmptyMap, variant |-> <<>>]
NoPath == Rel(<<>>)

LocalsInit ==
    /\ base = NoPath
    /\ manifest = NoManifest
    /\ images = <<>>
    /\ idx = 0
    /\ fidx = 0
    /\ data = <<>>
    /\ image = <<>>
    /\ name = <<>>
    /\ outer = NoPath
    /\ hash = <<>>
    /\ out_file = NoPath
    /\ encoded = <<>>

FpIdle ==
    /\ fp_req = [bytes |-> <<>>, variant |-> None, manifest |-> FALSE]
    /\ fp_pc = "idle"
    /\ fp_out = <<>>
    /\ fp_old = <<>>
    /\ fp_stage = "none"

Init ==
    /\ args \in ArgsSet
    /\ overflow_checks \in BOOLEAN
    /\ seeds = ReleaseSeeds
    /\ fs = Files0
    /\ dirs = Dirs0
    /\ manifest_file \in (IF args.manifest /\ args.variant.some
                            THEN ManifestFileChoices ELSE {Absent})
    /\ pc = "start"
    /\ LocalsInit
    /\ reads = 0
    /\ saves = 0
    /\ written = <<>>
    /\ start = [fs |-> fs, dirs |-> dirs, manifest_file |-> manifest_file]
    /\ run = 1
    /\ prev = [written |-> <<>>, manifest_file |-> Absent]
    /\ FpIdle


-----------------------------------------------------------------------------
(* main(), one action per step. *)

(* process::exit(1) *)
Exit1 == pc' = "exit1"

(* The format check and `let base`. *)
Start ==
    /\ pc = "start"
    /\ IF args.format = <<>> THEN Exit1 /\ UNCHANGED base
       ELSE IF ~args.base_dir.some THEN pc' = "load" /\ base' = Cwd
       ELSE IF IsDir(dirs, Join(Cwd, args.base_dir.val))
            THEN pc' = "load" /\ base' = Join(Cwd, args.base_dir.val)
       ELSE Exit1 /\ UNCHANGED base
    /\ UNCHANGED <<build, disk, history, fpVars>>
    /\ UNCHANGED <<manifest, images, idx, fidx, data, image, name, outer, hash,
                   out_file, encoded>>

(* `let mut manifest`: the manifest is read and parsed when the file exists. *)
LoadManifest ==
    /\ pc = "load"
    /\ IF ~args.manifest THEN pc' = "resolve" /\ manifest' = NoManifest
       ELSE IF ~args.variant.some THEN Exit1 /\ UNCHANGED manifest
       ELSE IF manifest_file.kind = "absent"
            THEN /\ pc' = "resolve"
                 /\ manifest' = [some |-> TRUE, map |-> EmptyMap, variant |-> args.variant.val]
       ELSE \E read_ok \in BOOLEAN :
              IF read_ok /\ manifest_file.kind = "json"
              THEN /\ pc' = "resolve"
                   /\ manifest' = [some |-> TRUE, map |-> FromJson(manifest_file.doc),
                                   variant |-> args.variant.val]
              ELSE Exit1 /\ UNCHANGED manifest
    /\ UNCHANGED <<build, disk, history, fpVars>>
    /\ UNCHANGED <<base, images, idx, fidx, data, image, name, outer, hash,
                   out_file, encoded>>

(* The closure of `let images` applied to one path. *)
JoinedOnCwd(p) == IF ~p.abs THEN Join(Cwd, p) ELSE p

(* Whether the closure exits on the path: not a file, or absolute and not  *)
(* starting with base.                                                      *)
Refused(files, p, b) ==
    \/ ~IsFile(files, JoinedOnCwd(p))
    \/ (JoinedOnCwd(p).abs /\ ~StartsWith(JoinedOnCwd(p), b))

(* `let images`: every path is joined and checked, then the list must not  *)
(* be empty.                                                                *)
ResolvePaths ==
    /\ pc = "resolve"
    /\ IF \/ \E i \in 1..Len(args.images) : Refused(fs, args.images[i], base)
          \/ args.images = <<>>
       THEN Exit1 /\ UNCHANGED <<images, idx>>
       ELSE /\ images' = [i \in 1..Len(args.images) |-> JoinedOnCwd(args.images[i])]
            /\ idx' = 1
            /\ pc' = "read"
    /\ UNCHANGED <<build, disk, history, fpVars>>
    /\ UNCHANGED <<base, manifest, fidx, data, image, name, outer, hash, out_file, encoded>>

(* fs::read of the image. *)
ReadImage ==
    /\ pc = "read"
    /\ reads' = reads + 1
    /\ \E ok \in BOOLEAN :
         IF ok /\ IsFile(fs, images[idx])
         THEN data' = fs[Resolve(images[idx])] /\ pc' = "decode"
         ELSE Exit1 /\ UNCHANGED data
    /\ UNCHANGED <<build, disk, fpVars, saves, written, start, run, prev>>
    /\ UNCHANGED <<base, manifest, images, idx, fidx, image, name, outer, hash,
                   out_file, encoded>>

(* The decoder is chosen by the extension of the path. *)
Decode ==
    /\ pc = "decode"
    /\ IF Extension(FileName(images[idx])) \in {<<"jpg">>, <<"png">>}
       THEN \E ok \in BOOLEAN :
              IF ok THEN /\ image' = [pixels |-> data, resized |-> FALSE]
                         /\ pc' = "resize"
              ELSE Exit1 /\ UNCHANGED image
       ELSE Exit1 /\ UNCHANGED image
    /\ UNCHANGED <<build, disk, history, fpVars>>
    /\ UNCHANGED <<base, manifest, images, idx, fidx, data, name, outer, hash,
                   out_file, encoded>>

(* wimg::resize::resize, then relative_path, name and out_file. *)
Resize ==
    /\ pc = "resize"
    /\ \E ok \in BOOLEAN :
         IF ok
         THEN LET relative_path == StripPrefix(images[idx], base)
              IN /\ image' = [image EXCEPT !.resized = TRUE]
                 /\ name' = PathString(WithExtension(relative_path, <<>>))
                 /\ outer' = Join(OutDir, relative_path)
                 /\ fidx' = 1
                 /\ pc' = "hash"
         ELSE Exit1 /\ UNCHANGED <<image, name, outer, fidx>>
    /\ UNCHANGED <<build, disk, history, fpVars>>
    /\ UNCHANGED <<base, manifest, images, idx, data, hash, out_file, encoded>>

(* seed, hash and the out_file of the format. *)
ComputeHash ==
    /\ pc = "hash"
    /\ LET fp == Fingerprint(data, args.format[fidx], manifest, seeds, overflow_checks)
       IN IF fp.panic THEN pc' = "panic" /\ UNCHANGED <<hash, out_file>>
          ELSE /\ hash' = fp.bytes
               /\ out_file' = OutFileFor(outer, fp.bytes, args.format[fidx])
               /\ pc' = "mkdir"
    /\ UNCHANGED <<build, disk, history, fpVars>>
    /\ UNCHANGED <<base, manifest, images, idx, fidx, data, image, name, outer, encoded>>

(* fs::create_dir_all of the parent of out_file. *)
CreateDir ==
    /\ pc = "mkdir"
    /\ \E ok \in BOOLEAN :
         IF ok THEN /\ dirs' = dirs \cup CreatedDirs(Join(Cwd, Parent(out_file)))
                    /\ pc' = "encode"
         ELSE Exit1 /\ UNCHANGED dirs
    /\ UNCHANGED <<build, fs, manifest_file, history, fpVars, locals>>

(* The encoder of the format. *)
Encode ==
    /\ pc = "encode"
    /\ \E ok \in BOOLEAN :
         IF ok THEN /\ encoded' = <<FormatIndex(args.format[fidx])>> \o image.pixels
                    /\ pc' = "write"
         ELSE Exit1 /\ UNCHANGED encoded
    /\ UNCHANGED <<build, disk, history, fpVars>>
    /\ UNCHANGED <<base, manifest, images, idx, fidx, data, image, name, outer, hash,
                   out_file>>

(* fs::write of the encoded image. *)
WriteOutput ==
    /\ pc = "write"
    /\ \E ok \in BOOLEAN :
         IF ok
         THEN /\ fs' = Put(fs, Resolve(Join(Cwd, out_file)), encoded)
              /\ written' = Append(written,
                                   [source |-> images[idx], data |-> data,
                                    format |-> args.format[fidx], file |-> out_file,
                                    hash |-> hash])
              /\ pc' = "record"
         ELSE Exit1 /\ UNCHANGED <<fs, written>>
    /\ UNCHANGED <<build, dirs, manifest_file, fpVars, locals>>
    /\ UNCHANGED <<reads, saves, start, run, prev>>

(* The leaf is inserted when a manifest is kept; then the loops go on. *)
Record ==
    /\ pc = "record"
    /\ manifest' =
         IF manifest.some
         THEN [manifest EXCEPT !.map =
                 RecordLeaf(manifest.map, name, manifest.variant, Ext(args.format[fidx]),
                            PathString(StripPrefix(out_file, OutDir)))]
         ELSE manifest
    /\ IF fidx < Len(args.format)
       THEN fidx' = fidx + 1 /\ pc' = "hash" /\ UNCHANGED idx
       ELSE IF idx < Len(images)
       THEN idx' = idx + 1 /\ pc' = "read" /\ UNCHANGED fidx
       ELSE pc' = "save" /\ UNCHANGED <<idx, fidx>>
    /\ UNCHANGED <<build, disk, history, fpVars>>
    /\ UNCHANGED <<base, images, data, image, name, outer, hash, out_file, encoded>>

(* File::create of the manifest, which truncates the file. *)
CreateManifestFile ==
    /\ pc = "save"
    /\ IF ~manifest.some THEN pc' = "done" /\ UNCHANGED <<manifest_file, saves>>
       ELSE \E ok \in BOOLEAN :
              IF ok THEN /\ manifest_file' = Truncated
                         /\ saves' = saves + 1
                         /\ pc' = "serialize"
              ELSE Exit1 /\ UNCHANGED <<manifest_file, saves>>
    /\ UNCHANGED <<build, fs, dirs, fpVars, locals>>
    /\ UNCHANGED <<reads, written, start, run, prev>>

(* serde_json::to_writer_pretty into the created file. *)
WriteManifest ==
    /\ pc = "serialize"
    /\ \E ok \in BOOLEAN :
         IF ok THEN manifest_file' = JsonFile(ToJson(manifest.map)) /\ pc' = "done"
         ELSE manifest_file' = Partial /\ Exit1
    /\ UNCHANGED <<build, fs, dirs, history, fpVars, locals>>

(* The program is invoked again with the same command line and loads the  *)
(* manifest it saved.                                                        *)
Rerun ==
    /\ pc = "done"
    /\ args.manifest
    /\ run = 1
    /\ run' = run + 1
    /\ prev' = [written |-> written, manifest_file |-> manifest_file]
    /\ start' = [fs |-> fs, dirs |-> dirs, manifest_file |-> manifest_file]
    /\ reads' = 0
    /\ saves' = 0
    /\ written' = <<>>
    /\ pc' = "start"
    /\ base' = NoPath
    /\ manifest' = NoManifest
    /\ images' = <<>>
    /\ idx' = 0
    /\ fidx' = 0
    /\ data' = <<>>
    /\ image' = <<>>
    /\ name' = <<>>
    /\ outer' = NoPath
    /\ hash' = <<>>
    /\ out_file' = NoPath
    /\ encoded' = <<>>
    /\ UNCHANGED <<build, disk, fpVars>>

Next ==
    \/ Start
    \/ LoadManifest
    \/ ResolvePaths
    \/ ReadImage
    \/ Decode
    \/ Resize
    \/ ComputeHash
    \/ CreateDir
    \/ Encode
    \/ WriteOutput
    \/ Record
    \/ CreateManifestFile
    \/ WriteManifest
    \/ Rerun

Spec == Init /\ [][Next]_vars


-----------------------------------------------------------------------------
(* The fingerprint computation of main() on its own: the hash of every     *)
(* format for one image, for any seeds, then again after the seed() of one  *)
(* stage has changed.                                                        *)

MainIdle ==
    /\ args = [images |-> <<>>, base_dir |-> None, variant |-> None,
               manifest |-> FALSE, format |-> <<>>]
    /\ fs = Files0
    /\ dirs = Dirs0
    /\ manifest_file = Absent
    /\ pc = "idle"
    /\ LocalsInit
    /\ reads = 0
    /\ saves = 0
    /\ written = <<>>
    /\ start = [fs |-> fs, dirs |-> dirs, manifest_file |-> manifest_file]
    /\ run = 1
    /\ prev = [written |-> <<>>, manifest_file |-> Absent]

(* The command lines that reach the hash: --manifest requires --variant. *)
FpRequests ==
    {r \in [bytes : {<<3>>, <<200>>},
            variant : {None, Some(<<"thumb">>), Some(<<"large">>)},
            manifest : BOOLEAN] : r.manifest => r.variant.some}

InitFp ==
    /\ MainIdle
    /\ overflow_checks \in BOOLEAN
    /\ seeds \in [Stages -> SeedValues]
    /\ fp_req \in FpRequests
    /\ fp_pc = "new"
    /\ fp_out = <<>>
    /\ fp_old = <<>>
    /\ fp_stage = "none"

(* `manifest` as LoadManifest leaves it for the request. *)
ManifestOf(r) ==
    IF r.manifest THEN [some |-> TRUE, map |-> EmptyMap, variant |-> r.variant.val]
    ELSE NoManifest

(* The seed and the hash main() computes for every format. *)
HashesOf(r, sd, checks) ==
    [f \in Formats |->
        [seed |-> SeedSum(f, sd),
         fp |-> Fingerprint(r.bytes, f, ManifestOf(r), sd, checks)]]

ComputeFingerprints ==
    /\ fp_pc = "new"
    /\ fp_out' = HashesOf(fp_req, seeds, overflow_checks)
    /\ fp_pc' = "computed"
    /\ UNCHANGED <<args, overflow_checks, seeds, disk, pc, locals, history>>
    /\ UNCHANGED <<fp_req, fp_old, fp_stage>>

(* A release changes the seed of one stage; the hashes are computed again. *)
ChangeSeed(st, v) ==
    /\ fp_pc = "computed"
    /\ v # seeds[st]
    /\ seeds' = [seeds EXCEPT ![st] = v]
    /\ fp_old' = fp_out
    /\ fp_out' = HashesOf(fp_req, seeds', overflow_checks)
    /\ fp_stage' = st
    /\ fp_pc' = "changed"
    /\ UNCHANGED <<args, overflow_checks, disk, pc, locals, history, fp_req>>

NextFp ==
    \/ ComputeFingerprints
    \/ \E st \in Stages, v \in SeedValues : ChangeSeed(st, v)

SpecFp == InitFp /\ [][NextFp]_vars


-----------------------------------------------------------------------------
(* The properties. *)

Aborted == pc \in {"exit1", "panic"}

(* The base directory the command line names. *)
NamedBase == IF args.base_dir.some THEN Join(Cwd, args.base_dir.val) ELSE Cwd

(* Whether a path of the command line names a location under the base. *)
LiesUnderBase(p) == IsPrefix(Resolve(NamedBase), Resolve(JoinedOnCwd(p)))

(* The path of a written output's source relative to the base directory. *)
SourceRelative(w) ==
    Rel(SubSeq(w.source.comps, Len(NamedBase.comps) + 1, Len(w.source.comps)))

(* The file name of a written output's source without its last extension. *)
SourceStem(w) ==
    LET n == w.source.comps[Len(w.source.comps)]
    IN SubSeq(n, 1, LastDot(n) - 1)

(* The logical name of a written output's source: its path relative to the *)
(* base directory, extension stripped.                                       *)
LogicalName(w) ==
    LET rel == SourceRelative(w).comps
    IN JoinComps(SubSeq(rel, 1, Len(rel) - 1) \o <<SourceStem(w)>>)

(* The path of a written output relative to the output directory. *)
OutputRelative(w) ==
    JoinComps(SubSeq(w.file.comps, Len(OutDir.comps) + 1, Len(w.file.comps)))

(* The directory of a written output's source relative to the base,        *)
(* re-rooted under the output directory.                                     *)
ExpectedDir(w) ==
    LET rel == SourceRelative(w).comps
    IN OutDir.comps \o SubSeq(rel, 1, Len(rel) - 1)

HasLeaf(m, n, v, e) == n \in DOMAIN m /\ v \in DOMAIN m[n] /\ e \in DOMAIN m[n][v]

(* C1: the manifest file is written at most once in a run, only after      *)
(* every (image, format) pair of the run has been written and recorded, and *)
(* a run that aborts at any stage leaves the manifest file as it was when   *)
(* the run began.                                                            *)
C1_ManifestAllOrNothing ==
    /\ saves <= 1
    /\ manifest_file # start.manifest_file =>
         /\ Len(written) = Len(args.images) * Len(args.format)
         /\ pc \in {"serialize", "done", "exit1"}
    /\ Aborted => manifest_file = start.manifest_file

(* C2: every accepted image path names a location under the base           *)
(* directory, its base-relative suffix holds no ".." component, and every   *)
(* output file lies under the output directory.                              *)
C2_SandboxContainment ==
    /\ \A i \in 1..Len(images) :
         /\ IsPrefix(Resolve(base), Resolve(images[i]))
         /\ \A k \in 1..Len(StripPrefix(images[i], base).comps) :
              StripPrefix(images[i], base).comps[k] # ParentDir
    /\ \A k \in 1..Len(written) :
         IsPrefix(Resolve(Join(Cwd, OutDir)), Resolve(Join(Cwd, written[k].file)))

C4_ManifestModeNaming ==
    manifest.some =>
        /\ \A k \in 1..Len(written) :
             LET w == written[k]
             IN /\ Len(HexEncode(w.hash)) = 16
                /\ w.file.comps[Len(w.file.comps)] =
                     SourceStem(w) \o <<"-">> \o HexEncode(w.hash) \o <<".">> \o Ext(w.format)
        /\ (written # <<>> /\ pc # "record") =>
             LET w == written[Len(written)]
             IN /\ HasLeaf(manifest.map, LogicalName(w), manifest.variant, Ext(w.format))
                /\ manifest.map[LogicalName(w)][manifest.variant][Ext(w.format)]
                     = OutputRelative(w)

LeafValue(m, t) == m[t[1]][t[2]][t[3]]

(* C5: recording a leaf changes that leaf only: every other leaf keeps its *)
(* value, no leaf is removed, and the recorded leaf holds the new path; no   *)
(* other step of a run changes the loaded manifest.                          *)
C5_RecordChangesOneLeaf ==
    [][/\ (pc = "record" /\ manifest.some) =>
            LET t == <<name, manifest.variant, Ext(args.format[fidx])>>
            IN /\ Leaves(manifest'.map) = Leaves(manifest.map) \cup {t}
               /\ \A l \in Leaves(manifest.map) \ {t} :
                    LeafValue(manifest'.map, l) = LeafValue(manifest.map, l)
               /\ LeafValue(manifest'.map, t) = PathString(StripPrefix(out_file, OutDir))
       /\ pc \notin {"load", "record", "done"} => manifest' = manifest]_vars

(* C5, witness: leaves were recorded into a manifest loaded from disk; one *)
(* replaced the value of an existing leaf, the leaves of another variant,    *)
(* another format and another image are still there.                         *)
C5_Witness ==
    /\ pc = "save"
    /\ manifest.some
    /\ start.manifest_file = EarlierManifest
    /\ HasLeaf(manifest.map, <<"cat">>, <<"thumb">>, <<"png">>)
    /\ manifest.map[<<"cat">>][<<"thumb">>][<<"png">>] # <<"cat", "-", "old", ".", "png">>
    /\ HasLeaf(manifest.map, <<"cat">>, <<"thumb">>, <<"webp">>)
    /\ HasLeaf(manifest.map, <<"cat">>, <<"large">>, <<"png">>)
    /\ HasLeaf(manifest.map, <<"zebra">>, <<"thumb">>, <<"jpg">>)

(* C6: when a path of the command line is not a regular file or names a    *)
(* location outside the base directory, the run reads no image and creates  *)
(* no file and no directory.                                                 *)
C6_BadPathStopsRunBeforeWork ==
    (\E i \in 1..Len(args.images) :
        \/ ~IsFile(start.fs, JoinedOnCwd(args.images[i]))
        \/ ~LiesUnderBase(args.images[i]))
    => /\ reads = 0
       /\ fs = start.fs
       /\ dirs = start.dirs

(* C7: the hash of every format is keyedHash(bytes, seed) without a        *)
(* variant name and keyedHash(bytes, seed) + keyedHash(utf8(variant), seed)  *)
(* with one, seed = resizeSeed + formatSeed, both sums wrapping, and the     *)
(* computation never aborts.                                                 *)
C7_FingerprintAsSpecified ==
    fp_pc \in {"computed", "changed"} =>
        \A f \in Formats :
            LET seed == AddFixed(seeds["resize"], seeds[FormatStage(f)]).bytes
                h1 == Hash(fp_req.bytes, seed)
            IN /\ ~fp_out[f].fp.panic
               /\ fp_out[f].fp.bytes =
                    IF fp_req.variant.some
                    THEN AddFixed(h1, Hash(AsBytes(fp_req.variant.val), seed)).bytes
                    ELSE h1

(* C8: after the seed of one stage has changed, the hash of every format   *)
(* that does not pass through the stage is what it was, and the combined     *)
(* seed of every format that does is another one, and so is its hash where   *)
(* it is the keyed hash of the source bytes alone.                           *)
C8_SeedChangeIsLocal ==
    fp_pc = "changed" =>
        \A f \in Formats :
            IF fp_stage \notin {"resize", FormatStage(f)}
            THEN fp_out[f] = fp_old[f]
            ELSE (~fp_out[f].fp.panic /\ ~fp_old[f].fp.panic) =>
                    /\ fp_out[f].seed.bytes # fp_old[f].seed.bytes
                    /\ ~fp_req.manifest => fp_out[f].fp.bytes # fp_old[f].fp.bytes

(* C8, witness: the png seed has changed; the png hash changed with it and *)
(* the hashes of the other formats did not.                                  *)
C8_Witness ==
    /\ fp_pc = "changed"
    /\ fp_stage = "png"
    /\ fp_req.manifest
    /\ ~fp_out["Png"].fp.panic
    /\ ~fp_old["Png"].fp.panic
    /\ fp_out["Png"].fp.bytes # fp_old["Png"].fp.bytes
    /\ \A f \in Formats \ {"Png"} : ~fp_out[f].fp.panic /\ fp_out[f] = fp_old[f]

(* C9: a second run with the same command line, loading the manifest the   *)
(* first run saved, writes the same outputs with the same hashes and file    *)
(* names and leaves the manifest file as the first run left it.              *)
C9_RerunReproduces ==
    (pc = "done" /\ run = 2 /\ args.manifest) =>
        /\ written = prev.written
        /\ manifest_file.kind = "json"
        /\ manifest_file = prev.manifest_file

(* C9, witness: the second run with a manifest has ended, after a first    *)
(* run that merged its outputs into an earlier manifest.                     *)
C9_Witness ==
    /\ pc = "done"
    /\ run = 2
    /\ args.manifest
    /\ Len(written) >= 2
    /\ HasLeaf(FromJson(manifest_file.doc), <<"zebra">>, <<"thumb">>, <<"jpg">>)

(* C10: after a run with a manifest the saved manifest resolves, for every *)
(* output written, the logical name of its source, the variant and the       *)
(* extension to the path of that output.                                     *)
C10_ManifestResolvesEveryOutput ==
    (pc = "done" /\ args.manifest) =>
        /\ manifest_file.kind = "json"
        /\ \A k \in 1..Len(written) :
             LET w == written[k]
                 saved == FromJson(manifest_file.doc)
             IN /\ HasLeaf(saved, LogicalName(w), args.variant.val, Ext(w.format))
                /\ saved[LogicalName(w)][args.variant.val][Ext(w.format)] = OutputRelative(w)

=============================================================================
